---- MODULE Spec2Model ----
(***************************************************************************)
(* Model of the pipecat voice agent: the restaurant booking tool handlers  *)
(* and the in-memory booking store of bot.py, the per-call wiring of       *)
(* run_bot (lifecycle hooks, pipeline task), the inbound call handler bot, *)
(* and the endpoints of server.py (/ws, /dialout).                          *)
(*                                                                         *)
(* Everything runs on one asyncio event loop: a coroutine runs without     *)
(* interruption from one await to the next, so each action below is the    *)
(* code between two consecutive awaits of one coroutine.                   *)
(***************************************************************************)
EXTENDS Integers, Sequences, FiniteSets, Bags, TLC

VARIABLES
    bookings_db,   \* bot.py:35, the module-level list of booking dicts
    conn,          \* per WebSocket connection: the websocket_endpoint/bot/run_bot coroutine
    frames,        \* bag of tool-handler coroutines suspended at `await params.result_callback(result)`
    dial           \* per HTTP request to /dialout: the handle_dialout_request coroutine

vars == <<bookings_db, conn, frames, dial>>

(***************************************************************************)
(* Bounds of the model.                                                    *)
(***************************************************************************)
NConn == 2          \* WebSocket connections (calls) served by the process
MaxBookings == 2    \* create_booking invocations explored
MaxInFlight == 2    \* tool handlers suspended at their result callback at one time
NDial == 2          \* /dialout requests

Conns == 1..NConn
Dials == 1..NDial

(***************************************************************************)
(* Python values.  A value of the loosely typed argument bag is tagged     *)
(* with its type; None is its own value, distinct from the string "None".  *)
(***************************************************************************)
PyNone == <<"None">>
PyStr(s) == <<"str", s>>
PyInt(n) == <<"int", n>>

\* dict.get(key, default): the default when the key is absent
DictGet(d, key, default) == IF key \in DOMAIN d THEN d[key] ELSE default

EmptyDict == [k \in {} |-> PyNone]

DigitChars == <<"0", "1", "2", "3", "4", "5", "6", "7", "8", "9">>

\* str(n) for n >= 0, as the sequence of its decimal digit characters
RECURSIVE Dec(_)
Dec(n) == IF n < 10 THEN <<DigitChars[n + 1]>>
          ELSE Dec(n \div 10) \o <<DigitChars[(n % 10) + 1]>>

\* the "0w" part of a format spec: pad with "0" on the left up to width w,
\* never truncating
RECURSIVE ZeroPad(_, _)
ZeroPad(s, w) == IF Len(s) >= w THEN s ELSE ZeroPad(<<"0">> \o s, w)

IdWidth == 4

\* f"{v}" : the text fragments an f-string field expands to
FStr(v) == CASE v[1] = "None" -> <<"None">>
             [] v[1] = "str" -> <<v[2]>>
             [] v[1] = "int" -> Dec(v[2])

\* datetime.now().isoformat(): date, "T", time of day
isoformat(now) == <<now[1], "T", now[2]>>

(***************************************************************************)
(* Inputs: the argument bags the LLM runtime may pass, and the clock.      *)
(***************************************************************************)
Clock == {<<"2025-07-01", "10:00:00">>}

\* a complete request without special requests; a request with fields
\* absent, a free-form date, an out-of-range party size and a special request
CreateArgs ==
    { [name |-> PyStr("Alice"), phone |-> PyStr("555-0100"),
       date |-> PyStr("2025-07-04"), time |-> PyStr("19:00"), guests |-> PyInt(4)],
      [name |-> PyStr("Bob"), date |-> PyStr("someday"), guests |-> PyInt(99),
       special_requests |-> PyStr("window seat")] }

\* a well-formed query; a malformed date with an out-of-range party size;
\* every field absent
CheckArgs ==
    { [date |-> PyStr("2025-07-04"), time |-> PyStr("19:00"), guests |-> PyInt(4)],
      [date |-> PyStr("31/31/31"), time |-> PyStr("19:00"), guests |-> PyInt(99)],
      EmptyDict }

\* the five categories, two unknown keys, and no info_type at all
InfoArgs ==
    { [info_type |-> PyStr(t)] :
          t \in {"general", "hours", "menu", "location", "capacity", "bogus", ""} }
    \cup {EmptyDict}

\* the info requests made between bookings
FewInfoArgs == { [info_type |-> PyStr("hours")], EmptyDict }

(***************************************************************************)
(* Tool handlers (bot.py:39-113).                                          *)
(***************************************************************************)

\* Mutation of available: a capacity model that refuses once a booking exists
available_while_empty == Len(bookings_db) = 0

\* bot.py:48
available == TRUE

\* bot.py:50-56
check_availability_result(arguments) ==
    LET date == DictGet(arguments, "date", PyNone)
        time == DictGet(arguments, "time", PyNone)
        guests == DictGet(arguments, "guests", PyNone)
    IN [available |-> available,
        date |-> date,
        time |-> time,
        guests |-> guests,
        message |-> IF available
                    THEN <<"Table for ">> \o FStr(guests) \o <<" is available on ">>
                         \o FStr(date) \o <<" at ">> \o FStr(time)
                    ELSE <<"No tables available">>]

\* Mutation of booking_id: the count is not incremented
booking_id_of_count(db) == <<"BOOK">> \o ZeroPad(Dec(Len(db)), IdWidth)

\* bot.py:71
booking_id(db) == <<"BOOK">> \o ZeroPad(Dec(Len(db) + 1), IdWidth)

\* bot.py:63-83
new_booking(db, arguments, now) ==
    [booking_id |-> booking_id(db),
     name |-> DictGet(arguments, "name", PyNone),
     phone |-> DictGet(arguments, "phone", PyNone),
     date |-> DictGet(arguments, "date", PyNone),
     time |-> DictGet(arguments, "time", PyNone),
     guests |-> DictGet(arguments, "guests", PyNone),
     special_requests |-> DictGet(arguments, "special_requests", PyStr("None")),
     created_at |-> isoformat(now)]

\* Mutation of save_booking: the list is replaced instead of extended
save_booking_replacing(db, booking) == <<booking>>

\* bot.py:84
save_booking(db, booking) == Append(db, booking)

\* bot.py:88-92
create_booking_result(booking) ==
    [booking_id |-> booking.booking_id,
     status |-> "confirmed",
     message |-> <<"Booking confirmed for ">> \o FStr(booking.name) \o <<" on ">>
                 \o FStr(booking.date) \o <<" at ">> \o FStr(booking.time)
                 \o <<" for ">> \o FStr(booking.guests)
                 \o <<" guests. Confirmation number: ">> \o booking.booking_id]

\* bot.py:101-107
info ==
    [general |-> "The Golden Spoon Restaurant is open Tuesday to Sunday, 11 AM to 10 PM. We are closed on Mondays.",
     hours |-> "Lunch: 11 AM - 3 PM, Dinner: 5 PM - 10 PM. Closed Mondays.",
     menu |-> "We offer Italian and Mediterranean cuisine with vegetarian, vegan, and gluten-free options.",
     location |-> "123 Main Street, Downtown. Free parking available.",
     capacity |-> "We can accommodate parties up to 12 guests."]

\* Mutation of info_get: a lookup without the fallback to "general"
info_get_without_default(info_type) ==
    IF info_type[1] = "str" /\ info_type[2] \in DOMAIN info
    THEN info[info_type[2]]
    ELSE "None"

\* bot.py:110, info.get(info_type, info["general"])
info_get(info_type) ==
    IF info_type[1] = "str" /\ info_type[2] \in DOMAIN info
    THEN info[info_type[2]]
    ELSE info["general"]

\* bot.py:99-111
get_restaurant_info_result(arguments) ==
    [info |-> info_get(DictGet(arguments, "info_type", PyStr("general")))]

\* A handler suspended at its last line, `await params.result_callback(result)`
Frame(c, fn, arguments, result) ==
    [conn |-> c, fn |-> fn, arguments |-> arguments, result |-> result]

(***************************************************************************)
(* Exceptions.  `except Exception` (server.py:103) matches instances of    *)
(* Exception, which is what bot and its collaborators raise; conditions    *)
(* that are not (cancellation of the serving task, interpreter exit) are   *)
(* not part of this model.                                                 *)
(***************************************************************************)
NoExc == [cls |-> "", base |-> "", msg |-> ""]
KeyError(key) == [cls |-> "KeyError", base |-> "Exception", msg |-> key]
\* an error raised by a collaborator (pipecat, starlette, a cloud service)
ExternalError(site) == [cls |-> "Error", base |-> "Exception", msg |-> site]

\* Mutation of Catches: a handler that matches no exception
Catches_nothing(e) == FALSE

\* server.py:103, `except Exception as e`
Catches(e) == e.base = "Exception"

(***************************************************************************)
(* Handshake payloads parse_telephony_websocket may return as call_data.   *)
(***************************************************************************)
Bodies ==
    { [to_number |-> PyStr("+15551234567"), from_number |-> PyStr("+15557654321")],
      [from_number |-> PyStr("+15557654321")],
      EmptyDict }

WithBody(d, b) == [k \in DOMAIN d \cup {"body"} |-> IF k = "body" THEN b ELSE d[k]]

CallIds == [stream_id |-> PyStr("MZ1"), call_id |-> PyStr("CA1")]

\* every subset of the two identifiers, with each body and without a body
CallDatas ==
    LET withIds(K) == [k \in K |-> CallIds[k]]
    IN { withIds(K) : K \in SUBSET {"stream_id", "call_id"} }
       \cup { WithBody(withIds(K), b) : K \in SUBSET {"stream_id", "call_id"}, b \in Bodies }

\* the handshake of a well-formed call
GoodCallData ==
    WithBody(CallIds, [to_number |-> PyStr("+15551234567"),
                       from_number |-> PyStr("+15557654321")])

\* Mutation of serializer_arguments: the identifiers are read with .get
serializer_arguments_get(call_data) == NoExc

\* bot.py:287-288, call_data["stream_id"] then call_data["call_id"]: the
\* first missing key raises KeyError(key)
serializer_arguments(call_data) ==
    IF "stream_id" \notin DOMAIN call_data THEN KeyError("stream_id")
    ELSE IF "call_id" \notin DOMAIN call_data THEN KeyError("call_id")
    ELSE NoExc

(***************************************************************************)
(* One WebSocket connection: the coroutine websocket_endpoint -> bot ->    *)
(* run_bot, positioned at the await it is suspended on.                    *)
(***************************************************************************)
IdleConn ==
    [pc |-> "idle",
     handshake |-> <<>>,        \* the call_data the pending parse will return
     accepted |-> FALSE,        \* websocket.accept() returned
     bot_calls |-> 0,           \* invocations of bot() for this connection
     exc |-> NoExc,             \* the exception raised while serving it, if any
     error_log |-> <<>>,        \* logger.error output of server.py:104
     close_calls |-> 0,         \* websocket.close() calls of server.py:105
     serializer |-> FALSE,      \* TwilioFrameSerializer constructed
     transport |-> FALSE,       \* FastAPIWebsocketTransport constructed
     run_bot |-> FALSE,         \* run_bot entered
     connected |-> 0,           \* on_client_connected events handled
     disconnected |-> 0,        \* on_client_disconnected events handled
     cancel_requests |-> 0]     \* task.cancel() calls on this session's PipelineTask

\* Mutation of raise_in_try: bot is awaited outside the try block
raise_unguarded(cn, e) == [cn EXCEPT !.pc = "propagated", !.exc = e, !.handshake = <<>>]

\* server.py:100-105: an exception e raised inside the try block
raise_in_try(cn, e) ==
    IF Catches(e)
    THEN [cn EXCEPT !.pc = "await_close", !.exc = e, !.handshake = <<>>,
                    !.error_log = <<"Error in WebSocket endpoint: ", e.msg>>,
                    !.close_calls = @ + 1]
    ELSE [cn EXCEPT !.pc = "propagated", !.exc = e, !.handshake = <<>>]

\* the framework calls websocket_endpoint, which runs to `await websocket.accept()`
ws_connect(c) ==
    /\ conn[c].pc = "idle"
    /\ conn' = [conn EXCEPT ![c].pc = "await_accept"]
    /\ UNCHANGED <<bookings_db, frames, dial>>

\* server.py:97-102 and bot.py:277: accept returns, the runner arguments are
\* built, bot is called and suspends on parse_telephony_websocket, which
\* will return call_data
ws_accept_returns(c, call_data) ==
    /\ conn[c].pc = "await_accept"
    /\ conn' = [conn EXCEPT ![c].accepted = TRUE, ![c].pc = "await_parse",
                            ![c].bot_calls = @ + 1, ![c].handshake = <<call_data>>]
    /\ UNCHANGED <<bookings_db, frames, dial>>

\* bot.py:278-306 and run_bot, bot.py:117-272, up to `await runner.run(task)`.
\* fail names the collaborator constructor that raises, if one does.
\* bot.py:278-284 read call_data only through .get and log what they find.
bot_after_parse(cn, call_data, fail) ==
    IF serializer_arguments(call_data) # NoExc
    THEN raise_in_try(cn, serializer_arguments(call_data))
    ELSE IF fail = "TwilioFrameSerializer" THEN raise_in_try(cn, ExternalError(fail))
    ELSE IF fail = "FastAPIWebsocketTransport"
         THEN raise_in_try([cn EXCEPT !.serializer = TRUE], ExternalError(fail))
    ELSE IF fail = "run_bot"
         THEN raise_in_try([cn EXCEPT !.serializer = TRUE, !.transport = TRUE,
                                      !.run_bot = TRUE], ExternalError(fail))
    ELSE [cn EXCEPT !.pc = "await_run", !.handshake = <<>>, !.serializer = TRUE,
                    !.transport = TRUE, !.run_bot = TRUE]

\* parse_telephony_websocket returns call_data
bot_parse_returns(c, fail) ==
    /\ conn[c].pc = "await_parse"
    /\ conn' = [conn EXCEPT ![c] = bot_after_parse(conn[c], conn[c].handshake[1], fail)]
    /\ UNCHANGED <<bookings_db, frames, dial>>

\* parse_telephony_websocket raises
bot_parse_raises(c) ==
    /\ conn[c].pc = "await_parse"
    /\ conn' = [conn EXCEPT ![c] = raise_in_try(conn[c], ExternalError("parse_telephony_websocket"))]
    /\ UNCHANGED <<bookings_db, frames, dial>>

\* bot.py:272: runner.run(task) returns; run_bot, bot and websocket_endpoint return
runner_returns(c) ==
    /\ conn[c].pc = "await_run"
    /\ conn' = [conn EXCEPT ![c].pc = "returned"]
    /\ UNCHANGED <<bookings_db, frames, dial>>

\* bot.py:272: runner.run(task) raises
runner_raises(c) ==
    /\ conn[c].pc = "await_run"
    /\ conn' = [conn EXCEPT ![c] = raise_in_try(conn[c], ExternalError("runner.run"))]
    /\ UNCHANGED <<bookings_db, frames, dial>>

\* server.py:105: websocket.close() returns and the endpoint returns
ws_close_returns(c) ==
    /\ conn[c].pc = "await_close"
    /\ conn' = [conn EXCEPT ![c].pc = "returned"]
    /\ UNCHANGED <<bookings_db, frames, dial>>

(***************************************************************************)
(* Lifecycle hooks registered by run_bot (bot.py:260-268).  Each closes    *)
(* over the PipelineTask of its own run_bot invocation.                    *)
(***************************************************************************)

\* bot.py:260-262: the sessions whose task the connect hook of session c cancels
connect_cancels(c) == {}

\* Mutation of disconnect_cancels: the hook cancels the task of every session
disconnect_cancels_all(c) == Conns

\* bot.py:264-268: the sessions whose task the disconnect hook of session c cancels
disconnect_cancels(c) == {c}

request_cancel(cn, targets, d) ==
    IF d \in targets THEN [cn EXCEPT !.cancel_requests = @ + 1] ELSE cn

\* bot.py:260-262
on_client_connected(c) ==
    /\ conn[c].pc = "await_run"
    /\ conn[c].connected = 0
    /\ conn' = [d \in Conns |->
                 request_cancel(IF d = c THEN [conn[d] EXCEPT !.connected = @ + 1]
                                ELSE conn[d],
                                connect_cancels(c), d)]
    /\ UNCHANGED <<bookings_db, frames, dial>>

\* bot.py:264-268
on_client_disconnected(c) ==
    /\ conn[c].pc = "await_run"
    /\ conn[c].connected = 1
    /\ conn[c].disconnected = 0
    /\ conn' = [d \in Conns |->
                 request_cancel(IF d = c THEN [conn[d] EXCEPT !.disconnected = @ + 1]
                                ELSE conn[d],
                                disconnect_cancels(c), d)]
    /\ UNCHANGED <<bookings_db, frames, dial>>

(***************************************************************************)
(* Tool handler invocations by the LLM service of a running session.  A    *)
(* handler runs from its first line to `await params.result_callback`.     *)
(***************************************************************************)
CanInvoke(c) ==
    /\ conn[c].pc = "await_run"
    /\ BagCardinality(frames) < MaxInFlight

\* bot.py:39-58
check_availability(c, arguments) ==
    /\ CanInvoke(c)
    /\ frames' = frames (+) SetToBag({Frame(c, "check_availability", arguments,
                                            check_availability_result(arguments))})
    /\ UNCHANGED <<bookings_db, conn, dial>>

\* Mutation of create_booking: the handler awaits between generating the
\* identifier (bot.py:71) and saving the booking (bot.py:84)
create_booking_yielding(c, arguments, now) ==
    \/ /\ CanInvoke(c)
       /\ Len(bookings_db) < MaxBookings
       /\ frames' = frames (+) SetToBag({Frame(c, "create_booking", arguments,
                         [booking_id |-> booking_id(bookings_db), status |-> "suspended",
                          message |-> <<>>])})
       /\ UNCHANGED <<bookings_db, conn, dial>>
    \/ /\ Len(bookings_db) < MaxBookings
       /\ \E f \in BagToSet(frames) :
             /\ f.fn = "create_booking"
             /\ f.conn = c
             /\ f.result.status = "suspended"
             /\ f.arguments = arguments
             /\ LET booking == [new_booking(bookings_db, arguments, now)
                                  EXCEPT !.booking_id = f.result.booking_id]
                IN /\ bookings_db' = save_booking(bookings_db, booking)
                   /\ frames' = (frames (-) SetToBag({f}))
                                 (+) SetToBag({Frame(c, "create_booking", arguments,
                                                     create_booking_result(booking))})
       /\ UNCHANGED <<conn, dial>>

\* bot.py:61-94
create_booking(c, arguments, now) ==
    /\ CanInvoke(c)
    /\ Len(bookings_db) < MaxBookings
    /\ LET booking == new_booking(bookings_db, arguments, now)
       IN /\ bookings_db' = save_booking(bookings_db, booking)
          /\ frames' = frames (+) SetToBag({Frame(c, "create_booking", arguments,
                                                  create_booking_result(booking))})
    /\ UNCHANGED <<conn, dial>>

\* bot.py:97-113
get_restaurant_info(c, arguments) ==
    /\ CanInvoke(c)
    /\ frames' = frames (+) SetToBag({Frame(c, "get_restaurant_info", arguments,
                                            get_restaurant_info_result(arguments))})
    /\ UNCHANGED <<bookings_db, conn, dial>>

\* bot.py:58, 94, 113: the result callback returns and the handler ends
result_callback_returns(f) ==
    /\ f \in BagToSet(frames)
    /\ frames' = frames (-) SetToBag({f})
    /\ UNCHANGED <<bookings_db, conn, dial>>

(***************************************************************************)
(* POST /dialout (server.py:34-57).  dialout_request_from_request and      *)
(* make_twilio_call are collaborators imported from server_utils: each     *)
(* either returns a value or raises.                                       *)
(***************************************************************************)
DialRequests ==
    { [to_number |-> "+15551234567", from_number |-> "+15557654321"],
      [to_number |-> "+15550000000", from_number |-> "+15557654321"] }

CallResults ==
    { [call_sid |-> sid, to_number |-> to] :
          sid \in {"CA100", "CA200"}, to \in {"+15551234567", "+15550000000"} }

\* the request and the call result of a well-formed dial-out
GoodDialRequest == [to_number |-> "+15551234567", from_number |-> "+15557654321"]

GoodCallResult == [call_sid |-> "CA100", to_number |-> "+15551234567"]

IdleDial ==
    [pc |-> "idle",
     request |-> <<>>,       \* the DialoutRequest passed to make_twilio_call
     calls |-> 0,            \* invocations of make_twilio_call
     call_result |-> <<>>,   \* what make_twilio_call returned
     response |-> <<>>,      \* the DialoutResponse returned
     error |-> ""]           \* the exception that left the handler

\* server.py:55
dialout_status == "call_initiated"

\* Mutation of DialoutResponse: the two fields of the call result are swapped
DialoutResponse_swapped(call_result) ==
    [call_sid |-> call_result.to_number,
     status |-> dialout_status,
     to_number |-> call_result.call_sid]

\* server.py:53-57
DialoutResponse(call_result) ==
    [call_sid |-> call_result.call_sid,
     status |-> dialout_status,
     to_number |-> call_result.to_number]

\* server.py:47-49: the handler runs to `await dialout_request_from_request(request)`
dialout_received(r) ==
    /\ dial[r].pc = "idle"
    /\ dial' = [dial EXCEPT ![r].pc = "await_parse"]
    /\ UNCHANGED <<bookings_db, conn, frames>>

\* server.py:49-51: the parse returns dialout_request and make_twilio_call is awaited
dialout_parse_returns(r, dialout_request) ==
    /\ dial[r].pc = "await_parse"
    /\ dial' = [dial EXCEPT ![r].pc = "await_call", ![r].request = <<dialout_request>>,
                            ![r].calls = @ + 1]
    /\ UNCHANGED <<bookings_db, conn, frames>>

\* server.py:49: the parse raises, which ends the handler
dialout_parse_raises(r) ==
    /\ dial[r].pc = "await_parse"
    /\ dial' = [dial EXCEPT ![r].pc = "failed", ![r].error = "HTTPException"]
    /\ UNCHANGED <<bookings_db, conn, frames>>

\* server.py:51-57: make_twilio_call returns call_result and the response is returned
dialout_call_returns(r, call_result) ==
    /\ dial[r].pc = "await_call"
    /\ dial' = [dial EXCEPT ![r].pc = "responded",
                            ![r].call_result = <<call_result>>,
                            ![r].response = <<DialoutResponse(call_result)>>]
    /\ UNCHANGED <<bookings_db, conn, frames>>

\* server.py:51: make_twilio_call raises, which ends the handler
dialout_call_raises(r) ==
    /\ dial[r].pc = "await_call"
    /\ dial' = [dial EXCEPT ![r].pc = "failed", ![r].error = "TwilioError"]
    /\ UNCHANGED <<bookings_db, conn, frames>>

(***************************************************************************)
(* The system.                                                             *)
(***************************************************************************)
Init ==
    /\ bookings_db = <<>>
    /\ conn = [c \in Conns |-> IdleConn]
    /\ frames = EmptyBag
    /\ dial = [r \in Dials |-> IdleDial]

\* A well-formed call from the connection to the end of its pipeline
\* (collaborators do not fail)
Call ==
    \/ \E c \in Conns : ws_connect(c)
    \/ \E c \in Conns : ws_accept_returns(c, GoodCallData)
    \/ \E c \in Conns : bot_parse_returns(c, "none")
    \/ \E c \in Conns : runner_returns(c)

\* Calls in progress whose LLM services invoke the three tools
Next ==
    \/ Call
    \/ \E c \in Conns, a \in CheckArgs : check_availability(c, a)
    \/ \E c \in Conns, a \in CreateArgs, now \in Clock : create_booking(c, a, now)
    \/ \E c \in Conns, a \in FewInfoArgs : get_restaurant_info(c, a)
    \/ \E f \in BagToSet(frames) : result_callback_returns(f)

Spec == Init /\ [][Next]_vars

\* Calls in progress asking for restaurant information of every kind
NextInfo ==
    \/ Call
    \/ \E c \in Conns, a \in InfoArgs : get_restaurant_info(c, a)
    \/ \E f \in BagToSet(frames) : result_callback_returns(f)

SpecInfo == Init /\ [][NextInfo]_vars

\* Calls in progress with their lifecycle events, making bookings
NextHooks ==
    \/ Call
    \/ \E c \in Conns : on_client_connected(c)
    \/ \E c \in Conns : on_client_disconnected(c)
    \/ \E c \in Conns, a \in CreateArgs, now \in Clock : create_booking(c, a, now)
    \/ \E f \in BagToSet(frames) : result_callback_returns(f)

SpecHooks == Init /\ [][NextHooks]_vars

\* The /ws endpoint with every handshake and failing collaborators
NextFaults ==
    \/ \E c \in Conns : ws_connect(c)
    \/ \E c \in Conns, cd \in CallDatas : ws_accept_returns(c, cd)
    \/ \E c \in Conns,
          fail \in {"none", "TwilioFrameSerializer", "FastAPIWebsocketTransport", "run_bot"} :
          bot_parse_returns(c, fail)
    \/ \E c \in Conns : bot_parse_raises(c)
    \/ \E c \in Conns : runner_returns(c)
    \/ \E c \in Conns : runner_raises(c)
    \/ \E c \in Conns : ws_close_returns(c)

SpecFaults == Init /\ [][NextFaults]_vars

\* The /dialout endpoint
NextDialout ==
    \/ \E r \in Dials : dialout_received(r)
    \/ \E r \in Dials, req \in DialRequests : dialout_parse_returns(r, req)
    \/ \E r \in Dials : dialout_parse_raises(r)
    \/ \E r \in Dials, res \in CallResults : dialout_call_returns(r, res)
    \/ \E r \in Dials : dialout_call_raises(r)

SpecDialout == Init /\ [][NextDialout]_vars

\* Every operation of the process that runs while the store exists: calls
\* making bookings, and next to them the two read-only tools and the
\* lifecycle events of one call and a /dialout request
NextStore ==
    \/ Call
    \/ on_client_connected(1)
    \/ on_client_disconnected(1)
    \/ check_availability(1, EmptyDict)
    \/ \E c \in Conns, a \in CreateArgs, now \in Clock : create_booking(c, a, now)
    \/ get_restaurant_info(1, EmptyDict)
    \/ \E f \in BagToSet(frames) : result_callback_returns(f)
    \/ dialout_received(1)
    \/ dialout_parse_raises(1)
    \/ dialout_parse_returns(1, GoodDialRequest)
    \/ dialout_call_returns(1, GoodCallResult)
    \/ dialout_call_raises(1)

SpecStore == Init /\ [][NextStore]_vars

(***************************************************************************)
(* Properties.                                                             *)
(***************************************************************************)
InFlight(fn) == { f \in BagToSet(frames) : f.fn = fn }

\* the frames a step adds: handlers that ran to their result callback in it
Started(fn) ==
    { f \in BagToSet(frames') : f.fn = fn /\ CopiesIn(f, frames') > CopiesIn(f, frames) }

\* "BOOK" followed by the four decimal digits of k, for k below 10000
ExpectedId(k) ==
    <<"BOOK", DigitChars[((k \div 1000) % 10) + 1], DigitChars[((k \div 100) % 10) + 1],
      DigitChars[((k \div 10) % 10) + 1], DigitChars[(k % 10) + 1]>>

DigitValue(ch) == CHOOSE d \in 0..9 : DigitChars[d + 1] = ch

\* the number an identifier carries after "BOOK"
RECURSIVE DigitsValue(_)
DigitsValue(ds) ==
    IF ds = <<>> THEN 0
    ELSE 10 * DigitsValue(SubSeq(ds, 1, Len(ds) - 1)) + DigitValue(ds[Len(ds)])

IdNumber(id) == DigitsValue(Tail(id))

\* C1: starting from the empty store, the k-th create_booking invocation
\* reports "BOOK" followed by k zero-padded to width 4, whatever its
\* arguments and whatever other tool calls and calls come in between, and
\* the k-th record of the store carries that identifier.
C1_IdentifiersInCallOrder ==
    [][ /\ \A k \in 1..Len(bookings_db') : bookings_db'[k].booking_id = ExpectedId(k)
        /\ \A f \in Started("create_booking") :
              /\ f.result.booking_id = ExpectedId(Len(bookings_db) + 1)
              /\ Len(bookings_db') = Len(bookings_db) + 1
              /\ bookings_db'[Len(bookings_db')].booking_id = f.result.booking_id ]_vars

\* Two calls have each made a booking; the handlers, both still suspended at
\* their callbacks, report BOOK0001 and BOOK0002.
C1_Witness ==
    /\ Len(bookings_db) = 2
    /\ bookings_db[2].booking_id = <<"BOOK", "0", "0", "0", "2">>
    /\ \E f, g \in InFlight("create_booking") :
          /\ f.conn # g.conn
          /\ f.result.booking_id = <<"BOOK", "0", "0", "0", "1">>
          /\ g.result.booking_id = <<"BOOK", "0", "0", "0", "2">>

\* C2: the store is append-only.  Every step leaves it unchanged or appends
\* one record at its end and keeps the existing records; the store changes
\* in exactly the steps in which a create_booking handler runs, once per
\* invocation whatever its arguments, and in no step of check_availability,
\* get_restaurant_info, the connect and disconnect hooks, the /dialout
\* endpoint or the call's own progress.
C2_AppendOnly ==
    [][ /\ \/ bookings_db' = bookings_db
           \/ /\ Len(bookings_db') = Len(bookings_db) + 1
              /\ SubSeq(bookings_db', 1, Len(bookings_db)) = bookings_db
        /\ (bookings_db' # bookings_db) <=> (Started("create_booking") # {})
        /\ Cardinality(Started("create_booking")) <= 1 ]_vars

\* The store holds two bookings after the disconnect hook of a call has run
\* and a /dialout request was answered, and a check_availability handler is
\* suspended next to a create_booking handler.
C2_Witness ==
    /\ Len(bookings_db) = 2
    /\ InFlight("check_availability") # {}
    /\ InFlight("create_booking") # {}
    /\ conn[1].disconnected = 1
    /\ dial[1].pc = "responded"

\* C3: with the create_booking handlers of several simultaneous calls
\* interleaving at their awaits, no two records of the store share an
\* identifier and the identifiers strictly increase in store order.
C3_UniqueIncreasingIds ==
    \A i, j \in 1..Len(bookings_db) :
        i < j => /\ bookings_db[i].booking_id # bookings_db[j].booking_id
                 /\ IdNumber(bookings_db[i].booking_id) < IdNumber(bookings_db[j].booking_id)

\* The create_booking handlers of two running calls are suspended at their
\* result callbacks at the same time.
C3_Witness ==
    \E f, g \in InFlight("create_booking") :
        /\ f.conn # g.conn
        /\ conn[f.conn].pc = "await_run"
        /\ conn[g.conn].pc = "await_run"
        /\ Len(bookings_db) >= 2

GeneralInfo ==
    "The Golden Spoon Restaurant is open Tuesday to Sunday, 11 AM to 10 PM. We are closed on Mondays."

\* the string the info table holds for a category, "general" for any other key
ExpectedInfo(arguments) ==
    IF "info_type" \notin DOMAIN arguments THEN GeneralInfo
    ELSE CASE arguments.info_type = PyStr("general") -> GeneralInfo
           [] arguments.info_type = PyStr("hours") ->
                 "Lunch: 11 AM - 3 PM, Dinner: 5 PM - 10 PM. Closed Mondays."
           [] arguments.info_type = PyStr("menu") ->
                 "We offer Italian and Mediterranean cuisine with vegetarian, vegan, and gluten-free options."
           [] arguments.info_type = PyStr("location") ->
                 "123 Main Street, Downtown. Free parking available."
           [] arguments.info_type = PyStr("capacity") ->
                 "We can accommodate parties up to 12 guests."
           [] OTHER -> GeneralInfo

\* C4: get_restaurant_info delivers the fixed string of each of the five
\* categories, and the string of "general" for any other key and for an
\* absent info_type; every invocation delivers a result, never an error.
C4_InfoLookup ==
    \A f \in InFlight("get_restaurant_info") :
        /\ DOMAIN f.result = {"info"}
        /\ f.result.info = ExpectedInfo(f.arguments)

\* An unknown category and an absent info_type have both been answered with
\* the "general" string.
C4_Witness ==
    \E f, g \in InFlight("get_restaurant_info") :
        /\ f.arguments = [info_type |-> PyStr("bogus")]
        /\ f.result.info = GeneralInfo
        /\ g.arguments = EmptyDict
        /\ g.result.info = GeneralInfo

\* C5: check_availability reports available = true for every combination
\* of arguments (absent fields, out-of-range party sizes, malformed dates)
\* and in every state of the store, echoes the date, time and guests it
\* received (None for an absent one), and has no error outcome.
C5_AlwaysAvailable ==
    \A f \in InFlight("check_availability") :
        /\ DOMAIN f.result = {"available", "date", "time", "guests", "message"}
        /\ f.result.available = TRUE
        /\ \A k \in {"date", "time", "guests"} :
              f.result[k] = IF k \in DOMAIN f.arguments THEN f.arguments[k] ELSE PyNone

\* Two bookings exist for a date and time, and a query for that date and
\* time and one with a malformed date and 99 guests are both answered
\* available.
C5_Witness ==
    /\ Len(bookings_db) = 2
    /\ \A k \in 1..2 : /\ bookings_db[k].date = PyStr("2025-07-04")
                       /\ bookings_db[k].time = PyStr("19:00")
    /\ \E f, g \in InFlight("check_availability") :
          /\ f.arguments = [date |-> PyStr("2025-07-04"), time |-> PyStr("19:00"),
                            guests |-> PyInt(4)]
          /\ f.result.available
          /\ g.result.guests = PyInt(99)
          /\ g.result.available

\* an exception raised while serving c was caught by the endpoint, logged,
\* and answered with one websocket.close()
Handled(c) ==
    /\ conn[c].pc \in {"await_close", "returned"}
    /\ conn[c].error_log = <<"Error in WebSocket endpoint: ", conn[c].exc.msg>>
    /\ conn[c].close_calls = 1

\* bot is invoked once the connection is accepted, and only once
AcceptedThenBotOnce(c) ==
    /\ conn[c].bot_calls <= 1
    /\ conn[c].bot_calls = 1 <=> conn[c].accepted
    /\ conn[c].pc \in {"await_parse", "await_run"} => conn[c].accepted

\* C6: the connection is accepted first and bot is then invoked exactly
\* once; an exception raised while handling the connection is caught at the
\* endpoint, logged, and answered with websocket.close(); bot is never
\* invoked again for the connection and no exception leaves the endpoint.
C6_ExceptionsHandledOnce ==
    \A c \in Conns :
        /\ AcceptedThenBotOnce(c)
        /\ conn[c].close_calls <= 1
        /\ conn[c].exc # NoExc <=> conn[c].close_calls = 1
        /\ conn[c].exc # NoExc => Handled(c)
        /\ conn[c].exc = NoExc => conn[c].error_log = <<>>
        /\ conn[c].pc # "propagated"

\* runner.run raised in a call whose pipeline was running: the endpoint has
\* logged the error and awaits websocket.close(), with bot invoked once.
C6_Witness ==
    \E c \in Conns :
        /\ conn[c].pc = "await_close"
        /\ conn[c].exc = ExternalError("runner.run")
        /\ conn[c].error_log = <<"Error in WebSocket endpoint: ", "runner.run">>
        /\ conn[c].close_calls = 1
        /\ conn[c].bot_calls = 1
        /\ conn[c].run_bot

LacksIdentifier(call_data) ==
    "stream_id" \notin DOMAIN call_data \/ "call_id" \notin DOMAIN call_data

\* C7: when the handshake lacks the stream or the call identifier, bot fails
\* with the KeyError of the first missing one (unless the parse itself
\* raised) before the serializer exists, and the failure leaves bot for its
\* caller: the transport is never constructed, run_bot never starts and the
\* store is unchanged.  A handshake with both identifiers never fails on a
\* missing key, whatever its body holds or lacks.
C7_MissingIdentifierFails ==
    [][ \A c \in Conns :
          (conn[c].pc = "await_parse" /\ conn'[c].pc # "await_parse") =>
             LET call_data == conn[c].handshake[1]
                 after == conn'[c]
             IN /\ LacksIdentifier(call_data) =>
                      /\ after.exc \in
                            { KeyError(IF "stream_id" \in DOMAIN call_data
                                       THEN "call_id" ELSE "stream_id"),
                              ExternalError("parse_telephony_websocket") }
                      /\ after.pc = "await_close"
                      /\ ~after.serializer /\ ~after.transport /\ ~after.run_bot
                      /\ bookings_db' = bookings_db
                /\ ~LacksIdentifier(call_data) => after.exc.cls # "KeyError" ]_vars

\* A handshake without call_id made bot raise KeyError('call_id') with no
\* transport built and run_bot not started.
C7_Witness ==
    \E c \in Conns :
        /\ conn[c].exc = KeyError("call_id")
        /\ conn[c].bot_calls = 1
        /\ ~conn[c].serializer /\ ~conn[c].transport /\ ~conn[c].run_bot
        /\ conn[c].pc = "await_close"

\* C8 as stated: the error of a handshake without required call metadata is
\* caught by no application code between the /ws endpoint and bot and
\* reaches the web framework.
C8_KeyErrorReachesFramework ==
    \A c \in Conns :
        conn[c].exc.cls = "KeyError" =>
            /\ conn[c].pc = "propagated"
            /\ conn[c].error_log = <<>>
            /\ conn[c].close_calls = 0

\* C8 amended: the error of a handshake without required call metadata is
\* not caught inside bot (no transport, no run_bot), and is caught by the
\* /ws endpoint's `except Exception`, which logs it and closes the socket;
\* it does not reach the web framework.
C8_KeyErrorCaughtAtEndpoint ==
    \A c \in Conns :
        conn[c].exc.cls = "KeyError" =>
            /\ Handled(c)
            /\ ~conn[c].transport /\ ~conn[c].run_bot

\* The endpoint has returned normally after handling KeyError('stream_id').
C8_Witness ==
    \E c \in Conns :
        /\ conn[c].exc = KeyError("stream_id")
        /\ conn[c].pc = "returned"
        /\ conn[c].error_log = <<"Error in WebSocket endpoint: ", "stream_id">>
        /\ conn[c].close_calls = 1

\* C9: POST /dialout parses the request, then invokes make_twilio_call once,
\* then returns a response with status "call_initiated" and the call_sid and
\* to_number of the call result.  A failed parse places no call; a failed
\* parse or call returns no response; nothing is retried.
C9_DialoutSequence ==
    \A r \in Dials :
        LET d == dial[r]
        IN /\ d.calls <= 1
           /\ d.calls = 1 <=> d.request # <<>>
           /\ d.pc \in {"idle", "await_parse"} => d.calls = 0
           /\ d.pc = "await_call" => d.calls = 1
           /\ d.response # <<>> <=> d.pc = "responded"
           /\ d.pc = "responded" =>
                 /\ d.calls = 1
                 /\ d.response[1] = [call_sid |-> d.call_result[1].call_sid,
                                     status |-> "call_initiated",
                                     to_number |-> d.call_result[1].to_number]
           /\ d.pc = "failed" => d.error \in {"HTTPException", "TwilioError"}
           /\ d.error = "HTTPException" => d.calls = 0
           /\ d.error = "TwilioError" => d.calls = 1

\* One request was answered with the number the provider reported, which
\* differs from the requested one; another failed to parse and placed no call.
C9_Witness ==
    \E r, q \in Dials :
        /\ dial[r].pc = "responded"
        /\ dial[r].response[1].status = "call_initiated"
        /\ dial[r].response[1].to_number # dial[r].request[1].to_number
        /\ dial[q].pc = "failed"
        /\ dial[q].error = "HTTPException"

\* C10: a session's pipeline task gets a cancellation request in exactly the
\* steps that handle its own client-disconnected event, one request per
\* event; the client-connected hook requests none; and a step that handles
\* either event leaves the store (and the handlers in flight) unchanged.
C10_CancelOnlyOnDisconnect ==
    [][ \A c \in Conns :
          /\ conn'[c].cancel_requests - conn[c].cancel_requests
                = conn'[c].disconnected - conn[c].disconnected
          /\ (conn'[c].connected # conn[c].connected
              \/ conn'[c].disconnected # conn[c].disconnected) =>
                /\ bookings_db' = bookings_db
                /\ frames' = frames ]_vars

\* A call that made a booking was disconnected and its task cancelled; the
\* booking is still in the store, and another connected call has no
\* cancellation request.
C10_Witness ==
    \E c, d \in Conns :
        /\ c # d
        /\ conn[c].disconnected = 1
        /\ conn[c].cancel_requests = 1
        /\ conn[c].pc = "returned"
        /\ \E f \in InFlight("create_booking") :
              /\ f.conn = c
              /\ \E k \in 1..Len(bookings_db) : bookings_db[k].booking_id = f.result.booking_id
        /\ conn[d].pc = "await_run"
        /\ conn[d].connected = 1
        /\ conn[d].cancel_requests = 0

====
